---- MODULE Spec2Model ----
(***************************************************************************)
(* Bouncing-ball tracker: the client's frame pipeline (on_track ->         *)
(* frame_queue -> process_frame -> x_value/y_value -> send_coordinates),   *)
(* its teardown, and the server's Ball / BouncingBallTrack / on_message.   *)
(***************************************************************************)
EXTENDS Integers, Sequences, FiniteSets, TLC

\* ------------------------------------------------------------------ bounds
MaxFrames == 2        \* frames the transport delivers to on_track
MaxIter == 2          \* iterations of the send_coordinates loop
MaxDim == 5           \* largest frame width and height of the bounded balls
MaxVel == 2           \* largest velocity magnitude of the bounded balls
MaxTicks == 3         \* frames the server's track produces

\* ------------------------------------------------------------ client data
\* The shutdown signal run_client puts on the queue (Python None).
None == [kind |-> "None"]

\* find_ball_coordinates returning None.
NotFound == [found |-> FALSE, x |-> 0, y |-> 0]

\* A contour as the detection primitives report it: its area and the centre
\* of its minimum enclosing circle in half pixels (cv2 returns floats).
Contour(a, x2, y2) == [area |-> a, cx2 |-> x2, cy2 |-> y2]

\* A frame, seen through cv2.findContours: its external contours in
\* extraction order.
Frame(cs) == [kind |-> "frame", contours |-> cs]

\* The frames the transport may deliver.
Frames ==
    { Frame(<<>>),
      Frame(<<Contour(4, 2, 2)>>),
      Frame(<<Contour(4, 5, 4)>>),
      Frame(<<Contour(2, 2, 2), Contour(6, 5, 4)>>),
      Frame(<<Contour(4, 2, 2), Contour(4, 5, 4)>>) }

\* Python int() of a non-negative float given in half pixels.
IntOfHalf(h) == h \div 2

\* MaxContour as it would be if a later contour of equal area replaced the
\* best so far.
MaxContourLast(cs) ==
    LET best == CHOOSE i \in 1..Len(cs) :
                  /\ \A j \in 1..Len(cs) : cs[j].area <= cs[i].area
                  /\ \A j \in (i + 1)..Len(cs) : cs[j].area < cs[i].area
    IN  cs[best]

\* max(contours, key=cv2.contourArea): the first contour of maximum area.
MaxContour(cs) ==
    LET best == CHOOSE i \in 1..Len(cs) :
                  /\ \A j \in 1..Len(cs) : cs[j].area <= cs[i].area
                  /\ \A j \in 1..(i - 1) : cs[j].area < cs[i].area
    IN  cs[best]

find_ball_coordinates(frame) ==
    IF frame.contours # <<>>
    THEN LET c == MaxContour(frame.contours)
         IN  [found |-> TRUE, x |-> IntOfHalf(c.cx2), y |-> IntOfHalf(c.cy2)]
    ELSE NotFound

\* json.dumps({"x": a, "y": b}): a well-formed text holding an object.
JInt(n) == [t |-> "int", v |-> n]
dumps(a, b) == [wf |-> TRUE, shape |-> "object", keys |-> {"x", "y"},
                x |-> JInt(a), y |-> JInt(b)]

VARIABLES
    frame_queue,   \* multiprocessing.Queue: frames and the None signal
    x_value,       \* multiprocessing.Value(c_int)
    y_value,       \* multiprocessing.Value(c_int)
    dpc,           \* process_frame: "get", "store_y", "exited"
    coordinates,   \* process_frame's local, between the two stores
    enqueued,      \* frames on_track has put, in order
    processed,     \* frames process_frame ran detection on, in order
    otpc,          \* on_track task: "running", "stopped"
    readyState,    \* data channel: "none", "connecting", "open", "closed"
    bpc,           \* send_coordinates task: "absent", "sleep", "read_y", "cancelled"
    bx,            \* x_value.value as read while building the dict
    sent,          \* messages handed to channel.send, in order
    iterations,    \* passes of the send_coordinates loop
    tpc            \* run_client: "running", "join", "close", "done"

clientVars == <<frame_queue, x_value, y_value, dpc, coordinates, enqueued,
                processed, otpc, readyState, bpc, bx, sent, iterations, tpc>>

VARIABLES
    ball,          \* Ball: x, y, velocity_x, velocity_y, radius
    track,         \* BouncingBallTrack: width, height, pts
    frame,         \* the frame the latest recv() returned
    handler        \* the latest on_message call and how it ended

serverVars == <<ball, track, frame, handler>>

vars == <<clientVars, serverVars>>

InitClient ==
    /\ frame_queue = <<>>
    /\ x_value = 0
    /\ y_value = 0
    /\ dpc = "get"
    /\ coordinates = NotFound
    /\ enqueued = <<>>
    /\ processed = <<>>
    /\ otpc = "running"
    /\ readyState = "none"
    /\ bpc = "absent"
    /\ bx = 0
    /\ sent = <<>>
    /\ iterations = 0
    /\ tpc = "running"

\* ------------------------------------------------------------ server data
Abs(n) == IF n < 0 THEN -n ELSE n

\* Ball.__init__
Ball(x, y, velocity_x, velocity_y, radius) ==
    [x |-> x, y |-> y, velocity_x |-> velocity_x, velocity_y |-> velocity_y,
     radius |-> radius]

\* BouncingBallTrack.__init__
BouncingBallTrack(width, height) ==
    [width |-> width, height |-> height, pts |-> 0]

\* check_bounce as it would be with the far-edge tests left out.
check_bounce_near_only(b, width, height) ==
    LET bx1 == IF b.x - b.radius <= 0
               THEN [b EXCEPT !.velocity_x = b.velocity_x * (-1)]
               ELSE b
    IN  IF bx1.y - bx1.radius <= 0
        THEN [bx1 EXCEPT !.velocity_y = bx1.velocity_y * (-1)]
        ELSE bx1

\* check_bounce as it would be with strict comparisons.
check_bounce_strict(b, width, height) ==
    LET bx1 == IF b.x - b.radius < 0 \/ b.x + b.radius > width
               THEN [b EXCEPT !.velocity_x = b.velocity_x * (-1)]
               ELSE b
    IN  IF bx1.y - bx1.radius < 0 \/ bx1.y + bx1.radius > height
        THEN [bx1 EXCEPT !.velocity_y = bx1.velocity_y * (-1)]
        ELSE bx1

\* check_bounce as it would be with "-= 1" typed for "*= -1".
check_bounce_decrement(b, width, height) ==
    LET bx1 == IF b.x - b.radius <= 0 \/ b.x + b.radius >= width
               THEN [b EXCEPT !.velocity_x = b.velocity_x - 1]
               ELSE b
    IN  IF bx1.y - bx1.radius <= 0 \/ bx1.y + bx1.radius >= height
        THEN [bx1 EXCEPT !.velocity_y = bx1.velocity_y - 1]
        ELSE bx1

\* Ball._check_bounce
check_bounce(b, width, height) ==
    LET bx1 == IF b.x - b.radius <= 0 \/ b.x + b.radius >= width
               THEN [b EXCEPT !.velocity_x = b.velocity_x * (-1)]
               ELSE b
    IN  IF bx1.y - bx1.radius <= 0 \/ bx1.y + bx1.radius >= height
        THEN [bx1 EXCEPT !.velocity_y = bx1.velocity_y * (-1)]
        ELSE bx1

\* update_position as it would be with the bounce test before the move.
update_position_bounce_first(b, width, height) ==
    LET c == check_bounce(b, width, height)
    IN  [c EXCEPT !.x = c.x + c.velocity_x, !.y = c.y + c.velocity_y]

\* update_position as it would be if a bounce also undid the move.
update_position_step_back(b, width, height) ==
    LET m == [b EXCEPT !.x = b.x + b.velocity_x, !.y = b.y + b.velocity_y]
        c == check_bounce(m, width, height)
    IN  [c EXCEPT !.x = IF c.velocity_x # m.velocity_x THEN b.x ELSE m.x,
                  !.y = IF c.velocity_y # m.velocity_y THEN b.y ELSE m.y]

\* Ball.update_position
update_position(b, width, height) ==
    check_bounce([b EXCEPT !.x = b.x + b.velocity_x,
                           !.y = b.y + b.velocity_y], width, height)

\* Time base of the track and the frame rate _create_video_frame assumes.
TimeBaseDenominator == 90000
FramesPerSecond == 30

\* What cv2.circle draws and _create_video_frame stamps.
VideoFrame(b, pts) ==
    [circle |-> <<b.x, b.y, b.radius>>, pts |-> pts]

NoFrame == [circle |-> <<0, 0, 0>>, pts |-> -1]

\* ---- telemetry texts
JStr == [t |-> "str", v |-> 0]
JNull == [t |-> "null", v |-> 0]

\* A text on the data channel: well-formed JSON or not, and if so the value
\* it denotes.
Text(wf, shape, keys, x, y) ==
    [wf |-> wf, shape |-> shape, keys |-> keys, x |-> x, y |-> y]

\* Coordinates a client may report.
Reported == { <<0, 0>>, <<1, 3>>, <<320, 240>> }

ValidMessages == { dumps(p[1], p[2]) : p \in Reported }

MalformedMessages ==
    { Text(FALSE, "object", {"x", "y"}, JInt(1), JInt(3)),   \* not JSON
      Text(TRUE, "array", {}, JInt(0), JInt(0)),             \* [1, 3]
      Text(TRUE, "object", {"y"}, JInt(0), JInt(3)),         \* no "x"
      Text(TRUE, "object", {"x"}, JInt(1), JInt(0)),         \* no "y"
      Text(TRUE, "object", {"x", "y"}, JStr, JInt(3)),       \* "x": "abc"
      Text(TRUE, "object", {"x", "y"}, JInt(1), JNull) }     \* "y": null

Messages == ValidMessages \cup MalformedMessages

\* json.loads: the value of a well-formed text, JSONDecodeError otherwise.
loads(text) ==
    IF text.wf
    THEN [ok |-> TRUE, shape |-> text.shape, keys |-> text.keys,
          x |-> text.x, y |-> text.y]
    ELSE [ok |-> FALSE, shape |-> "", keys |-> {}, x |-> JNull, y |-> JNull]

\* The largest r in lo..hi with r * r <= n (lo * lo <= n).
RECURSIVE ISqrtIn(_, _, _)
ISqrtIn(n, lo, hi) ==
    IF lo >= hi THEN lo
    ELSE LET mid == (lo + hi + 1) \div 2
         IN  IF mid * mid <= n THEN ISqrtIn(n, mid, hi)
             ELSE ISqrtIn(n, lo, mid - 1)

\* f"{math.sqrt(d2):.2f}" in hundredths: 100 * sqrt(d2) rounded to nearest.
Format2f(d2) ==
    LET c == ISqrtIn(10000 * d2, 0, 46340)
    IN  IF c * c + c < 10000 * d2 THEN c + 1 ELSE c

NoSample == [reported |-> <<0, 0>>, actual |-> <<0, 0>>, radicand |-> 0,
             error |-> 0]

Raised(message, exc) ==
    [status |-> "raised", message |-> message, exc |-> exc,
     printed |-> NoSample]

\* on_message as it would be with actual_x used in both terms.
on_message_x_twice(message, b) ==
    LET c == loads(message)
    IN  IF ~c.ok THEN Raised(message, "JSONDecodeError")
        ELSE IF c.shape # "object" THEN Raised(message, "TypeError")
        ELSE IF "x" \notin c.keys THEN Raised(message, "KeyError")
        ELSE IF "y" \notin c.keys THEN Raised(message, "KeyError")
        ELSE IF c.x.t # "int" THEN Raised(message, "TypeError")
        ELSE IF c.y.t # "int" THEN Raised(message, "TypeError")
        ELSE LET predicted_x == c.x.v
                 predicted_y == c.y.v
                 actual_x == b.x
                 actual_y == b.y
                 d2 == (actual_x - predicted_x) * (actual_x - predicted_x)
                       + (actual_x - predicted_y) * (actual_x - predicted_y)
             IN  [status |-> "returned", message |-> message, exc |-> "",
                  printed |-> [reported |-> <<predicted_x, predicted_y>>,
                               actual |-> <<actual_x, actual_y>>,
                               radicand |-> d2,
                               error |-> Format2f(d2)]]

\* on_message: the exception that leaves it, or the line it prints.
on_message(message, b) ==
    LET c == loads(message)
    IN  IF ~c.ok THEN Raised(message, "JSONDecodeError")
        ELSE IF c.shape # "object" THEN Raised(message, "TypeError")
        ELSE IF "x" \notin c.keys THEN Raised(message, "KeyError")
        ELSE IF "y" \notin c.keys THEN Raised(message, "KeyError")
        ELSE IF c.x.t # "int" THEN Raised(message, "TypeError")
        ELSE IF c.y.t # "int" THEN Raised(message, "TypeError")
        ELSE LET predicted_x == c.x.v
                 predicted_y == c.y.v
                 actual_x == b.x
                 actual_y == b.y
                 d2 == (actual_x - predicted_x) * (actual_x - predicted_x)
                       + (actual_y - predicted_y) * (actual_y - predicted_y)
             IN  [status |-> "returned", message |-> message, exc |-> "",
                  printed |-> [reported |-> <<predicted_x, predicted_y>>,
                               actual |-> <<actual_x, actual_y>>,
                               radicand |-> d2,
                               error |-> Format2f(d2)]]

\* run_server's ball and track.
ServerBall == Ball(320, 240, 2, 2, 30)
ServerTrack == BouncingBallTrack(640, 480)

\* The ball test_on_message_with_error_calculation evaluates against.
TestBall == Ball(300, 200, 2, 2, 30)

\* Bounded balls and frames: radius <= min(width, height) / 2 and the
\* position inside [radius, dimension - radius] on each axis.
SmallConfigs ==
    { c \in [radius : 1..(MaxDim \div 2), width : 2..MaxDim, height : 2..MaxDim,
             x : 1..MaxDim, y : 1..MaxDim,
             velocity_x : (-MaxVel)..MaxVel, velocity_y : (-MaxVel)..MaxVel] :
        /\ 2 * c.radius <= c.width
        /\ 2 * c.radius <= c.height
        /\ c.radius <= c.x /\ c.x <= c.width - c.radius
        /\ c.radius <= c.y /\ c.y <= c.height - c.radius }

InitServer ==
    /\ \/ /\ ball \in {ServerBall, TestBall}
          /\ track = ServerTrack
       \/ \E c \in SmallConfigs :
             /\ ball = Ball(c.x, c.y, c.velocity_x, c.velocity_y, c.radius)
             /\ track = BouncingBallTrack(c.width, c.height)
    /\ frame = NoFrame
    /\ handler = [status |-> "idle", message |-> dumps(0, 0), exc |-> "",
                  printed |-> NoSample]

\* The server as the client model leaves it: run_server's construction.
InitServerFixed ==
    /\ ball = ServerBall
    /\ track = ServerTrack
    /\ frame = NoFrame
    /\ handler = [status |-> "idle", message |-> dumps(0, 0), exc |-> "",
                  printed |-> NoSample]

\* ------------------------------------------------------ server operations
\* Recv as it would be with pts advanced before the frame is stamped.
RecvStampsAfter ==
    /\ track.pts < MaxTicks * (TimeBaseDenominator \div FramesPerSecond)
    /\ ball' = update_position(ball, track.width, track.height)
    /\ track' = [track EXCEPT
                    !.pts = track.pts + TimeBaseDenominator \div FramesPerSecond]
    /\ frame' = VideoFrame(ball', track'.pts)
    /\ UNCHANGED <<clientVars, handler>>

\* Recv as it would be with the circle drawn before the tick.
RecvDrawsBeforeTick ==
    /\ track.pts < MaxTicks * (TimeBaseDenominator \div FramesPerSecond)
    /\ ball' = update_position(ball, track.width, track.height)
    /\ frame' = VideoFrame(ball, track.pts)
    /\ track' = [track EXCEPT
                    !.pts = track.pts + TimeBaseDenominator \div FramesPerSecond]
    /\ UNCHANGED <<clientVars, handler>>

\* BouncingBallTrack.recv: tick, draw, stamp, advance pts.
Recv ==
    /\ track.pts < MaxTicks * (TimeBaseDenominator \div FramesPerSecond)
    /\ ball' = update_position(ball, track.width, track.height)
    /\ frame' = VideoFrame(ball', track.pts)
    /\ track' = [track EXCEPT
                    !.pts = track.pts + TimeBaseDenominator \div FramesPerSecond]
    /\ UNCHANGED <<clientVars, handler>>

\* OnMessage as it would be if a tick could run between the handler's reads
\* of track.ball.x and track.ball.y.
OnMessageAcrossTick ==
    /\ \E m \in Messages :
          handler' = on_message(m,
              [ball EXCEPT !.y = update_position(ball, track.width,
                                                 track.height).y])
    /\ UNCHANGED <<clientVars, ball, track, frame>>

\* The data channel delivers a message: on_message runs.
OnMessage ==
    /\ \E m \in Messages : handler' = on_message(m, ball)
    /\ UNCHANGED <<clientVars, ball, track, frame>>

NextServer ==
    \/ Recv
    \/ OnMessage


\* The client's event loop is between task steps: no task is inside a
\* synchronous stretch and run_client is not blocked in process_a.join().
LoopFree == bpc # "read_y" /\ tpc # "join"

\* ------------------------------------------------------- process_frame
\* DetectorExit as it would be if the loop also broke on a frame without
\* contours.
DetectorExitOnBlank ==
    /\ dpc = "get"
    /\ frame_queue # <<>>
    /\ \/ Head(frame_queue) = None
       \/ Head(frame_queue).contours = <<>>
    /\ frame_queue' = Tail(frame_queue)
    /\ dpc' = "exited"
    /\ UNCHANGED <<serverVars, x_value, y_value, coordinates, enqueued, processed, otpc,
                   readyState, bpc, bx, sent, iterations, tpc>>

\* DetectorExit as it would be if the loop went on after None (continue).
DetectorSkipsNone ==
    /\ dpc = "get"
    /\ frame_queue # <<>>
    /\ Head(frame_queue) = None
    /\ frame_queue' = Tail(frame_queue)
    /\ UNCHANGED <<serverVars, x_value, y_value, dpc, coordinates, enqueued, processed, otpc,
                   readyState, bpc, bx, sent, iterations, tpc>>

\* frame_queue.get() returned None: break.
DetectorExit ==
    /\ dpc = "get"
    /\ frame_queue # <<>>
    /\ Head(frame_queue) = None
    /\ frame_queue' = Tail(frame_queue)
    /\ dpc' = "exited"
    /\ UNCHANGED <<serverVars, x_value, y_value, coordinates, enqueued, processed, otpc,
                   readyState, bpc, bx, sent, iterations, tpc>>

\* DetectorMiss as it would be if a miss cleared the shared cells.
DetectorMissClears ==
    /\ dpc = "get"
    /\ frame_queue # <<>>
    /\ Head(frame_queue) # None
    /\ ~find_ball_coordinates(Head(frame_queue)).found
    /\ frame_queue' = Tail(frame_queue)
    /\ processed' = Append(processed, Head(frame_queue))
    /\ x_value' = 0
    /\ y_value' = 0
    /\ UNCHANGED <<serverVars, dpc, coordinates, enqueued, otpc,
                   readyState, bpc, bx, sent, iterations, tpc>>

\* A frame in which find_ball_coordinates finds nothing.
DetectorMiss ==
    /\ dpc = "get"
    /\ frame_queue # <<>>
    /\ Head(frame_queue) # None
    /\ ~find_ball_coordinates(Head(frame_queue)).found
    /\ frame_queue' = Tail(frame_queue)
    /\ processed' = Append(processed, Head(frame_queue))
    /\ UNCHANGED <<serverVars, x_value, y_value, dpc, coordinates, enqueued, otpc,
                   readyState, bpc, bx, sent, iterations, tpc>>

\* A frame with a ball: the first store of
\* x_value.value, y_value.value = coordinates.
DetectorStoreX ==
    /\ dpc = "get"
    /\ frame_queue # <<>>
    /\ Head(frame_queue) # None
    /\ find_ball_coordinates(Head(frame_queue)).found
    /\ frame_queue' = Tail(frame_queue)
    /\ processed' = Append(processed, Head(frame_queue))
    /\ coordinates' = find_ball_coordinates(Head(frame_queue))
    /\ x_value' = coordinates'.x
    /\ dpc' = "store_y"
    /\ UNCHANGED <<serverVars, y_value, enqueued, otpc, readyState, bpc, bx, sent,
                   iterations, tpc>>

\* The second store of the tuple assignment.
DetectorStoreY ==
    /\ dpc = "store_y"
    /\ y_value' = coordinates.y
    /\ dpc' = "get"
    /\ UNCHANGED <<serverVars, frame_queue, x_value, coordinates, enqueued, processed,
                   otpc, readyState, bpc, bx, sent, iterations, tpc>>

\* ------------------------------------------------------------ on_track
\* OnTrackFrame as it would be with the frame put at the head of the queue.
OnTrackFramePrepends ==
    /\ LoopFree
    /\ otpc = "running"
    /\ tpc # "done"
    /\ Len(enqueued) < MaxFrames
    /\ \E f \in Frames :
          /\ frame_queue' = <<f>> \o frame_queue
          /\ enqueued' = Append(enqueued, f)
    /\ UNCHANGED <<serverVars, x_value, y_value, dpc, coordinates, processed, otpc,
                   readyState, bpc, bx, sent, iterations, tpc>>

\* One pass of the loop: track.recv() delivered a frame, it is put on the
\* queue, and waitKey did not see 'q'.
OnTrackFrame ==
    /\ LoopFree
    /\ otpc = "running"
    /\ tpc # "done"
    /\ Len(enqueued) < MaxFrames
    /\ \E f \in Frames :
          /\ frame_queue' = Append(frame_queue, f)
          /\ enqueued' = Append(enqueued, f)
    /\ UNCHANGED <<serverVars, x_value, y_value, dpc, coordinates, processed, otpc,
                   readyState, bpc, bx, sent, iterations, tpc>>

\* As OnTrackFrame, and waitKey saw 'q': break.
OnTrackQuit ==
    /\ LoopFree
    /\ otpc = "running"
    /\ tpc # "done"
    /\ Len(enqueued) < MaxFrames
    /\ \E f \in Frames :
          /\ frame_queue' = Append(frame_queue, f)
          /\ enqueued' = Append(enqueued, f)
    /\ otpc' = "stopped"
    /\ UNCHANGED <<serverVars, x_value, y_value, dpc, coordinates, processed,
                   readyState, bpc, bx, sent, iterations, tpc>>

\* ------------------------------------------------------ data channel
\* pc's "datachannel" event: on_datachannel creates the send_coordinates
\* task. The transport hands the channel over connecting or open.
OnDataChannel ==
    /\ LoopFree
    /\ bpc = "absent"
    /\ tpc \in {"running", "close"}
    /\ readyState' \in {"connecting", "open"}
    /\ bpc' = "sleep"
    /\ UNCHANGED <<serverVars, frame_queue, x_value, y_value, dpc, coordinates, enqueued,
                   processed, otpc, bx, sent, iterations, tpc>>

\* The transport opens the channel.
ChannelOpen ==
    /\ LoopFree
    /\ readyState = "connecting"
    /\ readyState' = "open"
    /\ UNCHANGED <<serverVars, frame_queue, x_value, y_value, dpc, coordinates, enqueued,
                   processed, otpc, bpc, bx, sent, iterations, tpc>>

\* The peer or the transport closes the channel.
ChannelClose ==
    /\ LoopFree
    /\ readyState \in {"connecting", "open"}
    /\ readyState' = "closed"
    /\ UNCHANGED <<serverVars, frame_queue, x_value, y_value, dpc, coordinates, enqueued,
                   processed, otpc, bpc, bx, sent, iterations, tpc>>

\* ---------------------------------------------------- send_coordinates
\* BroadcasterSkip as it would be without the readyState test: it sends.
BroadcasterSendsUnready ==
    /\ LoopFree
    /\ bpc = "sleep"
    /\ iterations < MaxIter
    /\ readyState # "open"
    /\ iterations' = iterations + 1
    /\ sent' = Append(sent, dumps(x_value, y_value))
    /\ UNCHANGED <<serverVars, frame_queue, x_value, y_value, dpc, coordinates, enqueued,
                   processed, otpc, readyState, bpc, bx, tpc>>

\* The sleep ended and channel.readyState is not "open": next iteration.
BroadcasterSkip ==
    /\ LoopFree
    /\ bpc = "sleep"
    /\ iterations < MaxIter
    /\ readyState # "open"
    /\ iterations' = iterations + 1
    /\ UNCHANGED <<serverVars, frame_queue, x_value, y_value, dpc, coordinates, enqueued,
                   processed, otpc, readyState, bpc, bx, sent, tpc>>

\* The sleep ended, the channel is open: x_value.value is read.
BroadcasterReadX ==
    /\ LoopFree
    /\ bpc = "sleep"
    /\ iterations < MaxIter
    /\ readyState = "open"
    /\ iterations' = iterations + 1
    /\ bx' = x_value
    /\ bpc' = "read_y"
    /\ UNCHANGED <<serverVars, frame_queue, x_value, y_value, dpc, coordinates, enqueued,
                   processed, otpc, readyState, sent, tpc>>

\* y_value.value is read, the dict is dumped and sent.
BroadcasterSend ==
    /\ bpc = "read_y"
    /\ sent' = Append(sent, dumps(bx, y_value))
    /\ bpc' = "sleep"
    /\ UNCHANGED <<serverVars, frame_queue, x_value, y_value, dpc, coordinates, enqueued,
                   processed, otpc, readyState, bx, iterations, tpc>>

\* ----------------------------------------------------------- run_client
\* The wait is interrupted: the finally block puts None and calls join().
Interrupt ==
    /\ LoopFree
    /\ tpc = "running"
    /\ frame_queue' = Append(frame_queue, None)
    /\ tpc' = "join"
    /\ UNCHANGED <<serverVars, x_value, y_value, dpc, coordinates, enqueued, processed,
                   otpc, readyState, bpc, bx, sent, iterations>>

\* process_a.join() returns: the detector process has exited.
Join ==
    /\ tpc = "join"
    /\ dpc = "exited"
    /\ tpc' = "close"
    /\ UNCHANGED <<serverVars, frame_queue, x_value, y_value, dpc, coordinates, enqueued,
                   processed, otpc, readyState, bpc, bx, sent, iterations>>

\* pc.close(), signaling.close() and destroyAllWindows() complete;
\* asyncio.run then cancels the tasks still pending.
Close ==
    /\ LoopFree
    /\ tpc = "close"
    /\ tpc' = "done"
    /\ readyState' = IF readyState = "none" THEN "none" ELSE "closed"
    /\ otpc' = "stopped"
    /\ bpc' = IF bpc = "absent" THEN "absent" ELSE "cancelled"
    /\ UNCHANGED <<serverVars, frame_queue, x_value, y_value, dpc, coordinates, enqueued,
                   processed, bx, sent, iterations>>

NextClient ==
    \/ DetectorExit
    \/ DetectorMiss
    \/ DetectorStoreX
    \/ DetectorStoreY
    \/ OnTrackFrame
    \/ OnTrackQuit
    \/ OnDataChannel
    \/ ChannelOpen
    \/ ChannelClose
    \/ BroadcasterSkip
    \/ BroadcasterReadX
    \/ BroadcasterSend
    \/ Interrupt
    \/ Join
    \/ Close

\* The client run, beside a server left as constructed.
ClientInit == InitClient /\ InitServerFixed

SpecClient == ClientInit /\ [][NextClient]_vars

\* A step of the detector process.
Detector == DetectorExit \/ DetectorMiss \/ DetectorStoreX \/ DetectorStoreY

\* The client run with its scheduling: the detector is a process of its own
\* and the operating system keeps running it; a synchronous stretch of the
\* event loop (the send after the read) runs to its end; run_client goes on
\* when join() returns and when the closing calls return.
SpecClientFair ==
    /\ ClientInit
    /\ [][NextClient]_vars
    /\ WF_vars(Detector)
    /\ WF_vars(BroadcasterSend)
    /\ WF_vars(Join)
    /\ WF_vars(Close)

\* The server run, beside a client left as constructed.
ServerInit == InitClient /\ InitServer

SpecServer == ServerInit /\ [][NextServer]_vars

\* ================================================================ claims
\* The pair a sent message carries.
PairOf(m) == <<m.x.v, m.y.v>>

\* The pairs single detections wrote so far, and the initial pair.
WholePairs ==
    {<<0, 0>>} \cup
    { <<find_ball_coordinates(processed[j]).x,
        find_ball_coordinates(processed[j]).y>> :
        j \in { k \in 1..Len(processed) :
                  find_ball_coordinates(processed[k]).found } }

\* C1: every pair send_coordinates puts in a message is the initial pair or
\* the pair written by one single detection; no message mixes x from one
\* detection with y from another.
C1_NoTornPair ==
    \A i \in 1..Len(sent) : PairOf(sent[i]) \in WholePairs

\* The frames of a queue content, the None signal left out.
FramesOf(q) == SelectSeq(q, LAMBDA e : e # None)

\* Every frame put is processed or still queued, in order; None, while
\* queued, is the last item; the detector has exited only after None.
C2_StateInv ==
    /\ enqueued = processed \o FramesOf(frame_queue)
    /\ dpc = "exited" => tpc # "running" /\ FramesOf(frame_queue) = frame_queue
    /\ dpc # "exited" /\ tpc # "running" =>
          /\ frame_queue # <<>>
          /\ frame_queue[Len(frame_queue)] = None
          /\ Len(FramesOf(frame_queue)) = Len(frame_queue) - 1
    /\ tpc = "running" => FramesOf(frame_queue) = frame_queue

\* The exit step takes None off a queue whose frames are all processed;
\* after it nothing is dequeued or processed.
C2_ExitStep ==
    /\ dpc # "exited" /\ dpc' = "exited" =>
          /\ Head(frame_queue) = None
          /\ processed' = enqueued
          /\ frame_queue' = <<>>
    /\ dpc = "exited" =>
          /\ dpc' = "exited"
          /\ processed' = processed
          /\ Len(frame_queue') >= Len(frame_queue)

\* C2: with N frames enqueued and then None, process_frame runs detection
\* on exactly those N frames, in order, and then exits; it exits only on
\* dequeuing None and dequeues nothing afterwards.
C2_ExactlyNFrames == []C2_StateInv /\ [][C2_ExitStep]_vars

C2_Witness ==
    /\ dpc = "exited"
    /\ Len(processed) = 2
    /\ processed[1] # processed[2]

\* A step on a frame without a ball changes neither cell; a cell changes
\* only in a store of a detection that found one.
C3_MissStep ==
    /\ (processed' # processed
          /\ ~find_ball_coordinates(Head(frame_queue)).found) =>
          x_value' = x_value /\ y_value' = y_value
    /\ x_value' # x_value =>
          /\ processed' # processed
          /\ find_ball_coordinates(Head(frame_queue)).found
          /\ x_value' = find_ball_coordinates(Head(frame_queue)).x
    /\ y_value' # y_value =>
          /\ dpc = "store_y"
          /\ y_value' = find_ball_coordinates(processed[Len(processed)]).y

\* C3: a frame in which nothing is found leaves x_value and y_value as they
\* were; the cells change only in the stores of a successful detection.
C3_MissKeepsStore == [][C3_MissStep]_vars

C3_Witness ==
    /\ dpc = "get"
    /\ Len(processed) = 2
    /\ find_ball_coordinates(processed[1]).found
    /\ ~find_ball_coordinates(processed[2]).found
    /\ x_value = find_ball_coordinates(processed[1]).x
    /\ y_value = find_ball_coordinates(processed[1]).y
    /\ x_value # 0 /\ y_value # 0

\* The task is between the test and the send only with the channel open.
C7_StateInv ==
    bpc = "read_y" => readyState = "open"

\* One loop pass: open, it goes on to send exactly one message; not open,
\* it sends nothing and sleeps again.
C7_Step ==
    /\ iterations' # iterations =>
          /\ iterations' = iterations + 1
          /\ bpc = "sleep"
          /\ IF readyState = "open"
             THEN bpc' = "read_y" /\ bx' = x_value /\ sent' = sent
             ELSE bpc' = "sleep" /\ sent' = sent
    /\ bpc = "read_y" /\ bpc' # "read_y" =>
          /\ bpc' = "sleep"
          /\ Len(sent') = Len(sent) + 1
    /\ sent' # sent =>
          /\ readyState = "open"
          /\ bpc = "read_y"
          /\ Len(sent') = Len(sent) + 1
          /\ SubSeq(sent', 1, Len(sent)) = sent
          /\ PairOf(sent'[Len(sent')]) = <<bx, y_value>>
          /\ sent'[Len(sent')].wf
    /\ bpc \in {"sleep", "read_y"} /\ bpc' \notin {"sleep", "read_y"} =>
          tpc' = "done"

\* C7: an iteration of send_coordinates with the channel open sends exactly
\* one message, carrying the x it read and the current y; an iteration with
\* the channel not open sends nothing and the loop goes on; nothing is sent
\* while the channel is not open and the task ends only when the program
\* does.
C7_SendOnlyWhenOpen == []C7_StateInv /\ [][C7_Step]_vars

C7_Witness ==
    /\ iterations = 2
    /\ Len(sent) = 1
    /\ bpc = "sleep"
    /\ readyState = "open"

\* C10: once the None signal is on the queue, on_track puts no further
\* frame: no frame sits behind the signal, in the queue or after the
\* detector took the signal off it.
C10_NoFrameBehindSentinel ==
    tpc # "running" =>
        IF dpc = "exited"
        THEN frame_queue = <<>>
        ELSE /\ frame_queue # <<>>
             /\ frame_queue[Len(frame_queue)] = None

\* ---------------------------------------------------------- server claims
\* At least one tick has run.
Ticked == track.pts > 0

\* C4 as stated: after each tick the position on each axis is inside
\* [radius, dimension - radius].
C4_PositionInsideBox ==
    Ticked =>
        /\ ball.radius <= ball.x /\ ball.x <= track.width - ball.radius
        /\ ball.radius <= ball.y /\ ball.y <= track.height - ball.radius

\* C4 amended: the position on each axis is at most one tick's velocity
\* magnitude outside [radius, dimension - radius], and whenever it is
\* outside, the velocity component of that axis points back inside.
C4_OutsideByOneTickHeadingBack ==
    /\ ball.x < ball.radius =>
          ball.x >= ball.radius - Abs(ball.velocity_x) /\ ball.velocity_x > 0
    /\ ball.x > track.width - ball.radius =>
          /\ ball.x <= track.width - ball.radius + Abs(ball.velocity_x)
          /\ ball.velocity_x < 0
    /\ ball.y < ball.radius =>
          ball.y >= ball.radius - Abs(ball.velocity_y) /\ ball.velocity_y > 0
    /\ ball.y > track.height - ball.radius =>
          /\ ball.y <= track.height - ball.radius + Abs(ball.velocity_y)
          /\ ball.velocity_y < 0

C4_Witness ==
    /\ Ticked
    /\ ball.x > track.width - ball.radius
    /\ ball.y < ball.radius

\* C5: after any tick the drawn circle passes the frame edge on each axis
\* by at most that axis's velocity magnitude, and the centre stays within
\* [-|velocity|, dimension + |velocity|].
C5_BoundedOvershoot ==
    /\ ball.x - ball.radius >= - Abs(ball.velocity_x)
    /\ ball.x + ball.radius <= track.width + Abs(ball.velocity_x)
    /\ ball.y - ball.radius >= - Abs(ball.velocity_y)
    /\ ball.y + ball.radius <= track.height + Abs(ball.velocity_y)
    /\ - Abs(ball.velocity_x) <= ball.x
    /\ ball.x <= track.width + Abs(ball.velocity_x)
    /\ - Abs(ball.velocity_y) <= ball.y
    /\ ball.y <= track.height + Abs(ball.velocity_y)

C5_Witness ==
    /\ Ticked
    /\ ball.velocity_x # 0
    /\ ball.x + ball.radius = track.width + Abs(ball.velocity_x)
    /\ ball.velocity_y # 0
    /\ ball.y - ball.radius = - Abs(ball.velocity_y)

\* The ball is at an edge of the x axis, or of the y axis.
AtEdgeX(b) == b.x - b.radius <= 0 \/ b.x + b.radius >= track.width
AtEdgeY(b) == b.y - b.radius <= 0 \/ b.y + b.radius >= track.height

\* C6 as stated: a tick that starts with the ball at an edge moves it by
\* the velocity it had and leaves that axis's velocity component inverted.
C6_EdgeTickAlwaysInverts ==
    [][track'.pts # track.pts =>
          /\ AtEdgeX(ball) =>
                /\ ball'.x = ball.x + ball.velocity_x
                /\ ball'.velocity_x = - ball.velocity_x
          /\ AtEdgeY(ball) =>
                /\ ball'.y = ball.y + ball.velocity_y
                /\ ball'.velocity_y = - ball.velocity_y]_vars

\* One tick from an edge, per axis: moved by the old velocity, inverted iff
\* at an edge after the move.
C6_EdgeStep ==
    track'.pts # track.pts =>
        /\ AtEdgeX(ball) =>
              /\ ball'.x = ball.x + ball.velocity_x
              /\ ball'.velocity_x =
                    IF AtEdgeX(ball') THEN - ball.velocity_x
                    ELSE ball.velocity_x
              /\ (\/ ball.x - ball.radius <= 0 /\ ball.velocity_x < 0
                  \/ ball.x + ball.radius >= track.width /\ ball.velocity_x > 0)
                    => ball'.velocity_x = - ball.velocity_x
        /\ AtEdgeY(ball) =>
              /\ ball'.y = ball.y + ball.velocity_y
              /\ ball'.velocity_y =
                    IF AtEdgeY(ball') THEN - ball.velocity_y
                    ELSE ball.velocity_y
              /\ (\/ ball.y - ball.radius <= 0 /\ ball.velocity_y < 0
                  \/ ball.y + ball.radius >= track.height /\ ball.velocity_y > 0)
                    => ball'.velocity_y = - ball.velocity_y

\* C6 amended: a tick that starts with the ball at an edge moves it by the
\* velocity it had; that axis's velocity component is inverted for the
\* next tick exactly when the ball is at an edge of the axis after the
\* move, which is always so when it was heading into the edge it was at,
\* and is left as it was when the move carried the ball clear.
C6_EdgeTickInvertsAfterMove == [][C6_EdgeStep]_vars

\* After one tick: on x the ball left the edge it started at, velocity as
\* it was; on y it started at an edge heading in, and the velocity is
\* inverted.
C6_Witness ==
    /\ track.pts = TimeBaseDenominator \div FramesPerSecond
    /\ ball.velocity_x # 0
    /\ ~AtEdgeX(ball)
    /\ AtEdgeX([ball EXCEPT !.x = ball.x - ball.velocity_x])
    /\ ball.velocity_y > 0
    /\ AtEdgeY(ball)
    /\ ball.y + ball.velocity_y = ball.radius

\* C8: a malformed message makes on_message report a DecodeError and
\* return; no exception leaves the handler.
C8_MalformedContained ==
    handler.message \in MalformedMessages /\ handler.status # "idle" =>
        handler.status = "reported"

\* One on_message call on a valid message, against the ball as it is.
C9_Step ==
    handler' # handler /\ handler'.message \in ValidMessages =>
        LET p == handler'.printed
            dx == ball.x - handler'.message.x.v
            dy == ball.y - handler'.message.y.v
            r == dx * dx + dy * dy
            e == p.error
        IN  /\ handler'.status = "returned"
            /\ p.reported = <<handler'.message.x.v, handler'.message.y.v>>
            /\ p.actual = <<ball.x, ball.y>>
            /\ p.radicand = r
            /\ e >= 0
            /\ IF r = 0 THEN e = 0
               ELSE e * e - e < 10000 * r /\ 10000 * r <= e * e + e

\* C9: for a valid message on_message prints the position the ball has at
\* that moment and the Euclidean distance to the reported one: the value
\* under the root is dx^2 + dy^2 and the printed error is its root to the
\* nearest hundredth.
C9_EuclideanDeviation == [][C9_Step]_vars

C9_Witness ==
    /\ handler.status = "returned"
    /\ handler.printed.reported = <<320, 240>>
    /\ handler.printed.actual = <<300, 200>>
    /\ handler.printed.radicand = 2000
    /\ handler.printed.error = 4472

\* ------------------------------------------------------- client teardown
\* Teardown in order: the wait starts with None on the queue, ends only with
\* the detector exited, and the closing calls come only after the wait.
C11_OrderStep ==
    /\ tpc = "running" /\ tpc' # "running" =>
          /\ tpc' = "join"
          /\ frame_queue' = Append(frame_queue, None)
    /\ tpc = "join" /\ tpc' # "join" => tpc' = "close" /\ dpc = "exited"
    /\ tpc = "close" /\ tpc' # "close" => tpc' = "done" /\ dpc = "exited"
    /\ tpc = "done" => tpc' = "done"
    /\ tpc = "join" => readyState' = readyState /\ otpc' = otpc

\* C11: once the run loop is interrupted, teardown puts None, waits for the
\* detector to drain the queue and exit, only then closes, and comes to its
\* end: with the detector scheduled the wait on its exit always ends.
C11_TeardownCompletes ==
    /\ [][C11_OrderStep]_vars
    /\ (tpc = "join") ~> (tpc = "close" /\ dpc = "exited")
    /\ (tpc = "join") ~> (tpc = "done")

C11_Witness ==
    /\ tpc = "done"
    /\ dpc = "exited"
    /\ Len(processed) = 2
    /\ frame_queue = <<>>

\* ------------------------------------------------- client claims, continued
\* The pair the latest frame with a ball among fs gives, <<0, 0>> if none.
RECURSIVE LastDetected(_)
LastDetected(fs) ==
    IF fs = <<>> THEN <<0, 0>>
    ELSE LET d == find_ball_coordinates(fs[Len(fs)])
         IN  IF d.found THEN <<d.x, d.y>>
             ELSE LastDetected(SubSeq(fs, 1, Len(fs) - 1))

\* Between frames the cells hold the latest detection; between the two
\* stores x is already the new one and y still the one before.
C14_StateInv ==
    /\ Len(processed) <= Len(enqueued)
    /\ processed = SubSeq(enqueued, 1, Len(processed))
    /\ FramesOf(frame_queue) =
          SubSeq(enqueued, Len(processed) + 1, Len(enqueued))
    /\ dpc # "store_y" => <<x_value, y_value>> = LastDetected(processed)
    /\ dpc = "store_y" =>
          /\ x_value = LastDetected(processed)[1]
          /\ y_value =
                LastDetected(SubSeq(processed, 1, Len(processed) - 1))[2]

\* The detector takes the frame at the head, which is the oldest frame not
\* yet processed.
C14_Step ==
    processed' # processed =>
        /\ processed' = Append(processed, Head(frame_queue))
        /\ Head(frame_queue) = enqueued[Len(processed) + 1]
        /\ frame_queue' = Tail(frame_queue)

\* C14: the detector runs detection on the frames in the order on_track
\* put them, each once, and when it has processed the first k frames the
\* cells hold the coordinates of the latest of those k frames that had a
\* ball, or the initial value if none had.
C14_FifoLastWriteWins == []C14_StateInv /\ [][C14_Step]_vars

C14_Witness ==
    /\ dpc = "get"
    /\ Len(processed) = 2
    /\ find_ball_coordinates(processed[1]).found
    /\ find_ball_coordinates(processed[2]).found
    /\ find_ball_coordinates(processed[1]) # find_ball_coordinates(processed[2])
    /\ x_value = find_ball_coordinates(processed[2]).x
    /\ y_value = find_ball_coordinates(processed[2]).y

\* C15: on_track can put the next frame whatever the queue holds and
\* wherever the detector is: with the task alive and the event loop not
\* inside the broadcaster's send, the put is enabled.
C15_EnqueueAlwaysEnabled ==
    (otpc = "running" /\ tpc # "done" /\ bpc # "read_y"
        /\ Len(enqueued) < MaxFrames)
      => ENABLED OnTrackFrame

\* What find_ball_coordinates must give for a frame, from its contours.
C18_Expected(f, d) ==
    /\ d.found <=> f.contours # <<>>
    /\ ~d.found => d = NotFound
    /\ d.found =>
          \E i \in 1..Len(f.contours) :
              LET c == f.contours[i]
              IN  /\ \A j \in 1..Len(f.contours) : f.contours[j].area <= c.area
                  /\ \A j \in 1..(i - 1) : f.contours[j].area < c.area
                  /\ 2 * d.x <= c.cx2 /\ c.cx2 < 2 * d.x + 2
                  /\ 2 * d.y <= c.cy2 /\ c.cy2 < 2 * d.y + 2

\* C18: find_ball_coordinates gives NotFound exactly for a frame without
\* contours, and otherwise the integer centre of the enclosing circle of the
\* first contour of maximum area; what the detector stores is that result.
C18_LargestContourCentre ==
    /\ \A k \in 1..Len(processed) :
          C18_Expected(processed[k], find_ball_coordinates(processed[k]))
    /\ dpc = "store_y" =>
          /\ C18_Expected(processed[Len(processed)], coordinates)
          /\ x_value = coordinates.x

\* Two objects of different areas, then two of equal area, both processed.
C18_Witness ==
    /\ dpc = "get"
    /\ Len(processed) = 2
    /\ processed[1] = Frame(<<Contour(2, 2, 2), Contour(6, 5, 4)>>)
    /\ processed[2] = Frame(<<Contour(4, 2, 2), Contour(4, 5, 4)>>)
    /\ x_value = 1
    /\ y_value = 1

\* ------------------------------------------------- server claims, continued
\* The stamp of a frame and the track's counter, frame by frame.
C12_StateInv ==
    /\ track.pts >= 0
    /\ track.pts % 3000 = 0
    /\ IF frame = NoFrame THEN track.pts = 0
       ELSE frame.pts = track.pts - 3000

C12_Step ==
    frame' # frame =>
        /\ frame'.pts = track.pts
        /\ track'.pts = track.pts + 3000
        /\ IF frame = NoFrame THEN frame'.pts = 0
           ELSE frame'.pts = frame.pts + 3000
        /\ frame'.pts > frame.pts

\* C12: the frames recv produces carry presentation timestamps that start
\* at 0 and grow by the same 90000 // 30 = 3000 units from each frame to the
\* next.
C12_TimestampsGrowBy3000 == []C12_StateInv /\ [][C12_Step]_vars

C12_Witness ==
    /\ frame.pts = 6000
    /\ track.pts = 9000

\* The latest frame shows the ball as it is: nothing moved it since.
C13_StateInv ==
    frame # NoFrame => frame.circle = <<ball.x, ball.y, ball.radius>>

\* The ball changes only in a recv, which moves it by its velocity once,
\* tests the bounce, and draws the outcome.
C13_Step ==
    /\ (ball' # ball \/ frame' # frame \/ track' # track) =>
          /\ track'.pts = track.pts + 3000
          /\ ball'.x = ball.x + ball.velocity_x
          /\ ball'.y = ball.y + ball.velocity_y
          /\ ball' = update_position(ball, track.width, track.height)
          /\ frame'.circle = <<ball'.x, ball'.y, ball'.radius>>
          /\ frame'.pts = track.pts
    /\ handler' # handler => ball' = ball

\* C13: each recv ticks the simulator exactly once, before drawing: the
\* frame shows the position after that tick, the ball after k frames is the
\* ball after k ticks, and nothing else on the server ticks it.
C13_OneTickPerFrame == []C13_StateInv /\ [][C13_Step]_vars

C13_Witness ==
    /\ track.pts = 6000
    /\ frame.circle = <<324, 244, 30>>
    /\ ball = Ball(324, 244, 2, 2, 30)

\* A handler call is a step of its own and reads the ball whole.
C16_Step ==
    /\ handler' # handler =>
          /\ ball' = ball /\ track' = track /\ frame' = frame
          /\ handler'.status # "idle"
          /\ handler'.status = "returned" =>
                /\ handler'.printed.actual = <<ball.x, ball.y>>
                /\ frame # NoFrame =>
                      handler'.printed.actual = <<frame.circle[1], frame.circle[2]>>
    /\ (ball' # ball \/ track' # track) => handler' = handler

\* C16: an on_message call is one uninterrupted step: no tick and no other
\* call runs inside it, each message is handled as it arrives, and the
\* (x, y) it reads is the position one completed tick left (the one the
\* latest frame shows), never x of one tick with y of another.
C16_HandlerIsOneStep == [][C16_Step]_vars

C16_Witness ==
    /\ handler.status = "returned"
    /\ track.pts = 6000
    /\ handler.printed.actual = <<frame.circle[1], frame.circle[2]>>
    /\ handler.printed.actual = <<324, 244>>

\* One tick, written out per axis.
C17_Step ==
    track'.pts # track.pts =>
        LET nx == ball.x + ball.velocity_x
            ny == ball.y + ball.velocity_y
        IN  /\ ball'.x = nx
            /\ ball'.y = ny
            /\ ball'.velocity_x =
                  IF nx - ball.radius <= 0 \/ nx + ball.radius >= track.width
                  THEN - ball.velocity_x ELSE ball.velocity_x
            /\ ball'.velocity_y =
                  IF ny - ball.radius <= 0 \/ ny + ball.radius >= track.height
                  THEN - ball.velocity_y ELSE ball.velocity_y
            /\ ball'.radius = ball.radius

\* C17: a tick adds the velocity to the position on both axes whatever the
\* position, then negates each velocity component exactly when the new
\* position minus the radius is <= 0 or plus the radius is >= the dimension
\* of that axis.
C17_TickArithmetic == [][C17_Step]_vars

\* After one tick into a corner: both components negated, the ball exactly
\* touching the far edges.
C17_Witness ==
    /\ track.pts = 3000
    /\ ball.x + ball.radius = track.width
    /\ ball.y + ball.radius = track.height
    /\ ball.velocity_x < 0
    /\ ball.velocity_y < 0
    /\ ball.x - ball.radius > 0
    /\ ball.y - ball.radius > 0

\* C19: no step changes the magnitude of a velocity component or the
\* radius; a tick can only flip a component's sign.
C19_MagnitudesKept ==
    [][/\ Abs(ball'.velocity_x) = Abs(ball.velocity_x)
       /\ Abs(ball'.velocity_y) = Abs(ball.velocity_y)
       /\ ball'.radius = ball.radius]_vars

C19_Witness ==
    /\ track.pts = 6000
    /\ ball.velocity_x = -2
    /\ ball.velocity_y = 1
    /\ AtEdgeX(ball)
    /\ ~AtEdgeY(ball)

\* C20: no velocity component is inverted on two consecutive ticks: when
\* the previous tick inverted a component (the ball is at an edge of that
\* axis after it), the next tick leaves that component as it is.
C20_NoConsecutiveInversion ==
    [][(Ticked /\ track'.pts # track.pts) =>
          /\ (AtEdgeX(ball) /\ ball.velocity_x # 0) =>
                ball'.velocity_x = ball.velocity_x
          /\ (AtEdgeY(ball) /\ ball.velocity_y # 0) =>
                ball'.velocity_y = ball.velocity_y]_vars

====
